---- MODULE Spec2Model ----
(***************************************************************************)
(* Model of homeassistant/components/pi_hole/__init__.py: the setup and    *)
(* unload entry points of the Pi-hole integration and the poll callback    *)
(* (async_update_data) it registers with the DataUpdateCoordinator.        *)
(*                                                                         *)
(* Each coroutine is cut at its awaits: the code between two awaits is one *)
(* action.  The Pi-hole device (the hole client library) is the            *)
(* environment: every awaited API call nondeterministically returns or     *)
(* raises HoleError, and a returning get_data() leaves api.data a dict or  *)
(* something else.                                                         *)
(***************************************************************************)
EXTENDS Naturals, FiniteSets, TLC

\* ---------------------------------------------------------------- bounds
MaxSetups == 3      \* async_setup_entry calls, all entries together
MaxPolls == 2       \* scheduled polls, all entries together

Entries == {"e1", "e2"}

\* ------------------------------------------------------------- constants
CONF_API_KEY == "api_key"
CONF_HOST == "host"
CONF_STATISTICS_ONLY == "statistics_only"

\* Exceptions and results
HoleError == "HoleError"
UpdateFailed == "UpdateFailed"
ConfigEntryAuthFailed == "ConfigEntryAuthFailed"
ConfigEntryNotReady == "ConfigEntryNotReady"

VARIABLES
    entryData,       \* entry.data of each config entry: key -> value
    entryUpdated,    \* async_update_entry was called by the entry's last setup
    entryState,      \* config-entry state kept by the host
    hasDomain,       \* DOMAIN in hass.data
    domainData,      \* hass.data[DOMAIN]: entry_id -> {api, coordinator}
    apiCount,        \* Hole clients (and coordinators) created per entry
    apiData,         \* api.data of the entry's latest client
    setupPc,         \* position of async_setup_entry
    setupResult,     \* how the entry's last async_setup_entry ended
    forwarded,       \* platforms currently set up for the entry
    unloadResult,    \* return value of async_unload_entry since last setup
    pollPc,          \* position of async_update_data
    gdOut,           \* outcome of api.get_data() in the current/last poll
    gvOut,           \* outcome of api.get_versions() in the current/last poll
    dictChecked,     \* isinstance(api.data, dict) was evaluated in that poll
    pollResult,      \* how the last poll ended
    prevPollResult,  \* how the poll before it ended
    pollReauth,      \* the current/last poll started a reauth flow
    reauth,          \* a reauth flow is in progress for the entry
    nSetups,
    nPolls

vars == <<entryData, entryUpdated, entryState, hasDomain, domainData,
          apiCount, apiData, setupPc, setupResult, forwarded, unloadResult,
          pollPc, gdOut, gvOut, dictChecked, pollResult, prevPollResult,
          pollReauth, reauth, nSetups, nPolls>>

setupVars == <<entryData, entryUpdated, hasDomain, domainData, apiCount,
               nSetups, unloadResult>>
pollRecVars == <<gdOut, gvOut, dictChecked, prevPollResult>>

\* ---------------------------------------------------------------- helpers
Without(f, k) == [x \in DOMAIN f \ {k} |-> f[x]]

Put(f, k, v) == [x \in DOMAIN f \cup {k} |-> IF x = k THEN v ELSE f[x]]

\* The entry.data a config entry can have been created with: host is always
\* there, the API key and the obsolete statistics_only flag are optional.
EntryDataChoices ==
    { [k \in {CONF_HOST} \cup ks |->
         CASE k = CONF_HOST -> "pi.hole"
           [] k = CONF_API_KEY -> "token"
           [] OTHER -> "true"] :
      ks \in SUBSET {CONF_API_KEY, CONF_STATISTICS_ONLY} }

Init ==
    /\ entryData \in [Entries -> EntryDataChoices]
    /\ entryUpdated = [e \in Entries |-> FALSE]
    /\ entryState = [e \in Entries |-> "not_loaded"]
    /\ hasDomain = FALSE
    /\ domainData = [e \in {} |-> 0]
    /\ apiCount = [e \in Entries |-> 0]
    /\ apiData = [e \in Entries |-> "dict"]
    /\ setupPc = [e \in Entries |-> "idle"]
    /\ setupResult = [e \in Entries |-> "none"]
    /\ forwarded = [e \in Entries |-> FALSE]
    /\ unloadResult = [e \in Entries |-> "none"]
    /\ pollPc = [e \in Entries |-> "idle"]
    /\ gdOut = [e \in Entries |-> "none"]
    /\ gvOut = [e \in Entries |-> "none"]
    /\ dictChecked = [e \in Entries |-> FALSE]
    /\ pollResult = [e \in Entries |-> "none"]
    /\ prevPollResult = [e \in Entries |-> "none"]
    /\ pollReauth = [e \in Entries |-> FALSE]
    /\ reauth = [e \in Entries |-> FALSE]
    /\ nSetups = [e \in Entries |-> 0]
    /\ nPolls = [e \in Entries |-> 0]

RECURSIVE Total(_, _)
Total(f, S) ==
    IF S = {} THEN 0
    ELSE LET x == CHOOSE y \in S : TRUE IN f[x] + Total(f, S \ {x})

\* ------------------------------------------------- host framework (glue)
\* The host sets an entry up when it is not loaded, or retries after a
\* failed setup; never while a setup or a poll of the entry is running.
CanSetup(e) ==
    /\ entryState[e] \in {"not_loaded", "setup_retry", "setup_error"}
    /\ setupPc[e] = "idle"
    /\ pollPc[e] = "idle"
    /\ Total(nSetups, Entries) < MaxSetups

\* The host calls the integration's unload only for a loaded entry.
CanUnload(e) == entryState[e] = "loaded" /\ setupPc[e] = "idle"

\* The coordinator's timer fires only for a loaded entry, one refresh at a
\* time.
CanPoll(e) ==
    /\ entryState[e] = "loaded"
    /\ pollPc[e] = "idle"
    /\ Total(nPolls, Entries) < MaxPolls

\* A fresh run of the update method: nothing is carried over.
begin_update(e) ==
    /\ pollPc' = [pollPc EXCEPT ![e] = "get_data"]
    /\ gdOut' = [gdOut EXCEPT ![e] = "none"]
    /\ gvOut' = [gvOut EXCEPT ![e] = "none"]
    /\ dictChecked' = [dictChecked EXCEPT ![e] = FALSE]
    /\ pollResult' = [pollResult EXCEPT ![e] = "none"]
    /\ prevPollResult' = [prevPollResult EXCEPT ![e] = pollResult[e]]
    /\ pollReauth' = [pollReauth EXCEPT ![e] = FALSE]

\* The update method ended with r ("ok" or the exception it raised).  In the
\* first refresh (line 104) UpdateFailed becomes ConfigEntryNotReady and
\* ConfigEntryAuthFailed propagates, both out of async_setup_entry; in a
\* scheduled refresh UpdateFailed is logged and retried on the next tick and
\* ConfigEntryAuthFailed starts a reauth flow.
update_ended(e, r) ==
    /\ pollPc' = [pollPc EXCEPT ![e] = "idle"]
    /\ pollResult' = [pollResult EXCEPT ![e] = r]
    /\ reauth' = [reauth EXCEPT ![e] = @ \/ r = ConfigEntryAuthFailed]
    /\ pollReauth' = [pollReauth EXCEPT ![e] = r = ConfigEntryAuthFailed]
    /\ IF setupPc[e] = "first_refresh"
       THEN /\ setupPc' = [setupPc EXCEPT ![e] =
                              IF r = "ok" THEN "forward" ELSE "idle"]
            /\ setupResult' = [setupResult EXCEPT ![e] =
                  CASE r = "ok" -> @
                    [] r = UpdateFailed -> ConfigEntryNotReady
                    [] OTHER -> ConfigEntryAuthFailed]
            /\ entryState' = [entryState EXCEPT ![e] =
                  CASE r = "ok" -> @
                    [] r = UpdateFailed -> "setup_retry"
                    [] OTHER -> "setup_error"]
       ELSE UNCHANGED <<setupPc, setupResult, entryState>>

\* ------------------------------------------------------ async_setup_entry
\* Lines 59-63: the copy of entry.data without the obsolete key that setup
\* hands to async_update_entry.
strip_statistics_only_keep(data) == data

strip_statistics_only(data) == Without(data, CONF_STATISTICS_ONLY)

\* Line 66: the API key test that starts reauth.
api_key_missing_never(data) == FALSE

api_key_missing(data) == CONF_API_KEY \notin DOMAIN data

\* Lines 50-104, up to the first await: update the entry, check the key, build
\* client and coordinator, publish them and start the first refresh.
async_setup_entry(e) ==
    /\ CanSetup(e)
    /\ nSetups' = [nSetups EXCEPT ![e] = @ + 1]
    /\ unloadResult' = [unloadResult EXCEPT ![e] = "none"]
    /\ LET has_stat == CONF_STATISTICS_ONLY \in DOMAIN entryData[e]
           data == IF has_stat THEN strip_statistics_only(entryData[e])
                               ELSE entryData[e]
       IN  /\ entryData' = [entryData EXCEPT ![e] = data]
           /\ entryUpdated' = [entryUpdated EXCEPT ![e] = has_stat]
           /\ IF api_key_missing(data)
              THEN /\ setupResult' =
                        [setupResult EXCEPT ![e] = ConfigEntryAuthFailed]
                   /\ entryState' = [entryState EXCEPT ![e] = "setup_error"]
                   /\ reauth' = [reauth EXCEPT ![e] = TRUE]
                   /\ UNCHANGED <<hasDomain, domainData, apiCount, apiData,
                                  setupPc, forwarded, pollPc, gdOut, gvOut,
                                  dictChecked, pollResult, prevPollResult,
                                  pollReauth, nPolls>>
              ELSE /\ apiCount' = [apiCount EXCEPT ![e] = @ + 1]
                   \* a new client; its data is not read before get_data()
                   /\ apiData' = [apiData EXCEPT ![e] = "dict"]
                   /\ hasDomain' = TRUE
                   /\ domainData' = Put(domainData, e,
                         [api |-> apiCount[e] + 1,
                          coordinator |-> apiCount[e] + 1])
                   /\ setupPc' = [setupPc EXCEPT ![e] = "first_refresh"]
                   /\ setupResult' = [setupResult EXCEPT ![e] = "none"]
                   /\ entryState' =
                        [entryState EXCEPT ![e] = "setup_in_progress"]
                   /\ begin_update(e)
                   /\ UNCHANGED <<forwarded, reauth, nPolls>>

\* Lines 104-106: the platforms are forwarded once the first refresh has
\* returned.
ReadyToForward_early(e) == setupPc[e] \in {"first_refresh", "forward"}

ReadyToForward(e) == setupPc[e] = "forward"

\* Lines 106-108: forward the platforms and return True; a platform that
\* fails to set up makes the setup fail instead.
forward_entry_setups(e) ==
    /\ ReadyToForward(e)
    /\ \E fwd_ok \in BOOLEAN :
         /\ forwarded' = [forwarded EXCEPT ![e] = fwd_ok]
         /\ setupResult' = [setupResult EXCEPT ![e] =
                               IF fwd_ok THEN "True" ELSE "error"]
         /\ entryState' = [entryState EXCEPT ![e] =
                               IF fwd_ok THEN "loaded" ELSE "setup_error"]
    /\ setupPc' = [setupPc EXCEPT ![e] = "idle"]
    /\ UNCHANGED <<setupVars, apiData, pollPc, pollRecVars, pollResult,
                   pollReauth, reauth, nPolls>>

\* ------------------------------------------------------ async_update_data
\* Line 86: what the except clause turns a HoleError into.
on_hole_error_auth == ConfigEntryAuthFailed

on_hole_error == UpdateFailed

\* Lines 87-88: the test of api.data after both calls returned.
check_data_lenient(data) == "ok"

check_data(data) == IF data = "dict" THEN "ok" ELSE ConfigEntryAuthFailed

\* A poll that remembers the previous failure and gives up without calling
\* the API.
call_get_data_sticky(e) ==
    /\ pollPc[e] = "get_data"
    /\ IF pollResult[e] = "none" /\ prevPollResult[e] = UpdateFailed
       THEN /\ update_ended(e, UpdateFailed)
            /\ UNCHANGED <<gdOut, apiData>>
       ELSE \E out \in {"ok", HoleError}, d \in {"dict", "nondict"} :
              /\ gdOut' = [gdOut EXCEPT ![e] = out]
              /\ IF out = "ok"
                 THEN /\ apiData' = [apiData EXCEPT ![e] = d]
                      /\ pollPc' = [pollPc EXCEPT ![e] = "get_versions"]
                      /\ UNCHANGED <<pollResult, reauth, pollReauth, setupPc,
                                     setupResult, entryState>>
                 ELSE /\ d = apiData[e]
                      /\ apiData' = apiData
                      /\ update_ended(e, on_hole_error)
    /\ UNCHANGED <<setupVars, forwarded, gvOut, dictChecked, prevPollResult,
                   nPolls>>

\* Lines 82-83, 85-86: await api.get_data().  The device answers with a dict,
\* with something else, or the call raises HoleError and leaves api.data.
call_get_data(e) ==
    /\ pollPc[e] = "get_data"
    /\ \E out \in {"ok", HoleError}, d \in {"dict", "nondict"} :
         /\ gdOut' = [gdOut EXCEPT ![e] = out]
         /\ IF out = "ok"
            THEN /\ apiData' = [apiData EXCEPT ![e] = d]
                 /\ pollPc' = [pollPc EXCEPT ![e] = "get_versions"]
                 /\ UNCHANGED <<pollResult, reauth, pollReauth, setupPc,
                                setupResult, entryState>>
            ELSE /\ d = apiData[e]
                 /\ apiData' = apiData
                 /\ update_ended(e, on_hole_error)
    /\ UNCHANGED <<setupVars, forwarded, gvOut, dictChecked, prevPollResult,
                   nPolls>>

\* A poll that looks at api.data before it looks at the error.
call_get_versions_authfirst(e) ==
    /\ pollPc[e] = "get_versions"
    /\ \E out \in {"ok", HoleError} :
         /\ gvOut' = [gvOut EXCEPT ![e] = out]
         /\ dictChecked' = [dictChecked EXCEPT ![e] = TRUE]
         /\ IF check_data(apiData[e]) # "ok"
            THEN update_ended(e, check_data(apiData[e]))
            ELSE update_ended(e, IF out = "ok" THEN "ok" ELSE on_hole_error)
    /\ UNCHANGED <<setupVars, forwarded, apiData, gdOut, prevPollResult,
                   nPolls>>

\* Lines 84-88: await api.get_versions(), then test api.data.
call_get_versions(e) ==
    /\ pollPc[e] = "get_versions"
    /\ \E out \in {"ok", HoleError} :
         /\ gvOut' = [gvOut EXCEPT ![e] = out]
         /\ IF out = "ok"
            THEN /\ dictChecked' = [dictChecked EXCEPT ![e] = TRUE]
                 /\ update_ended(e, check_data(apiData[e]))
            ELSE /\ UNCHANGED dictChecked
                 /\ update_ended(e, on_hole_error)
    /\ UNCHANGED <<setupVars, forwarded, apiData, gdOut, prevPollResult,
                   nPolls>>

\* Lines 90-96: the coordinator calls the registered update method on its
\* timer.
scheduled_refresh(e) ==
    /\ CanPoll(e)
    /\ nPolls' = [nPolls EXCEPT ![e] = @ + 1]
    /\ begin_update(e)
    /\ UNCHANGED <<setupVars, apiData, setupPc, setupResult, entryState,
                   forwarded, reauth>>

\* ----------------------------------------------------- async_unload_entry
\* Line 113: await async_unload_platforms; it reports whether every platform
\* was unloaded.
unload_platforms(e) ==
    /\ CanUnload(e)
    /\ \E unload_ok \in BOOLEAN :
         forwarded' = [forwarded EXCEPT ![e] = ~unload_ok]
    /\ entryState' = [entryState EXCEPT ![e] = "unload_in_progress"]
    /\ UNCHANGED <<setupVars, apiData, setupPc, setupResult, pollPc,
                   pollRecVars, pollResult, pollReauth, reauth, nPolls>>

\* Line 114: the entry's data is dropped only after a successful unload.
should_pop_always(unload_ok) == TRUE

should_pop_never(unload_ok) == FALSE

should_pop(unload_ok) == unload_ok

\* Lines 114-116: pop the entry's data if the platforms were unloaded and
\* return unload_ok.
async_unload_entry(e) ==
    /\ entryState[e] = "unload_in_progress"
    /\ LET unload_ok == ~forwarded[e]
       IN  /\ domainData' = IF should_pop(unload_ok)
                            THEN Without(domainData, e) ELSE domainData
           /\ unloadResult' = [unloadResult EXCEPT ![e] =
                                  IF unload_ok THEN "True" ELSE "False"]
           /\ entryState' = [entryState EXCEPT ![e] =
                                IF unload_ok THEN "not_loaded"
                                             ELSE "failed_unload"]
    /\ UNCHANGED <<entryData, entryUpdated, hasDomain, apiCount, nSetups,
                   apiData, setupPc, setupResult, forwarded, pollPc,
                   pollRecVars, pollResult, pollReauth, reauth, nPolls>>

\* ------------------------------------------------------------------ spec
Next ==
    \E e \in Entries :
        \/ async_setup_entry(e)
        \/ call_get_data(e)
        \/ call_get_versions(e)
        \/ forward_entry_setups(e)
        \/ scheduled_refresh(e)
        \/ unload_platforms(e)
        \/ async_unload_entry(e)

Spec == Init /\ [][Next]_vars

TypeOK ==
    /\ \A e \in Entries :
         /\ setupPc[e] \in {"idle", "first_refresh", "forward"}
         /\ pollPc[e] \in {"idle", "get_data", "get_versions"}
         /\ apiCount[e] <= nSetups[e]
    /\ DOMAIN domainData \subseteq Entries

\* ---------------------------------------------------------------- claims
PollDone(e) == pollPc[e] = "idle" /\ pollResult[e] # "none"

SetupStep(e) == nSetups'[e] # nSetups[e]

UnloadStep(e) == unloadResult[e] = "none" /\ unloadResult'[e] # "none"

\* What a poll must end with, given only what the API did during it.
Outcome(gd, gv, data) ==
    IF gd = "ok" /\ gv = "ok"
    THEN IF data = "dict" THEN "ok" ELSE ConfigEntryAuthFailed
    ELSE UpdateFailed

\* C1: a poll in which get_data() or get_versions() raised HoleError ends with
\* UpdateFailed, never with ConfigEntryAuthFailed, and starts no reauth.
C1_HoleErrorIsTransient ==
    \A e \in Entries :
        (PollDone(e) /\ (gdOut[e] = HoleError \/ gvOut[e] = HoleError))
        => /\ pollResult[e] = UpdateFailed
           /\ ~pollReauth[e]
           /\ setupResult[e] # ConfigEntryAuthFailed

C1_Witness ==
    \E e \in Entries :
        /\ PollDone(e)
        /\ gdOut[e] = HoleError
        /\ pollResult[e] = UpdateFailed
        /\ ~reauth[e]

\* C2 as stated: every poll in which get_data() returned and left api.data a
\* non-dict ends with ConfigEntryAuthFailed.
C2_NonDictAlwaysAuthFailed ==
    \A e \in Entries :
        (PollDone(e) /\ gdOut[e] = "ok" /\ apiData[e] = "nondict")
        => pollResult[e] = ConfigEntryAuthFailed

\* C2 amended: every poll in which get_data() and get_versions() both returned
\* and api.data is a non-dict ends with ConfigEntryAuthFailed and starts
\* reauth.
C2_NonDictAuthFailedWhenNoError ==
    \A e \in Entries :
        (PollDone(e) /\ gdOut[e] = "ok" /\ gvOut[e] = "ok"
            /\ apiData[e] = "nondict")
        => (pollResult[e] = ConfigEntryAuthFailed /\ reauth[e])

C2_Witness ==
    \E e \in Entries :
        /\ PollDone(e)
        /\ gdOut[e] = "ok" /\ gvOut[e] = "ok"
        /\ apiData[e] = "nondict"
        /\ pollResult[e] = ConfigEntryAuthFailed

\* C3: a setup of an entry without CONF_API_KEY ends with
\* ConfigEntryAuthFailed at once: no client or coordinator is created,
\* hass.data is unchanged, no poll is made and no platform is forwarded.
C3_NoKeyFailsBeforePublishing ==
    [][\A e \in Entries :
        (SetupStep(e) /\ CONF_API_KEY \notin DOMAIN entryData[e])
        => /\ setupResult'[e] = ConfigEntryAuthFailed
           /\ setupPc'[e] = "idle"
           /\ apiCount' = apiCount
           /\ hasDomain' = hasDomain
           /\ domainData' = domainData
           /\ pollPc' = pollPc
           /\ gdOut' = gdOut /\ gvOut' = gvOut
           /\ nPolls' = nPolls
           /\ forwarded' = forwarded]_vars

C3_Witness ==
    \E e \in Entries :
        /\ nSetups[e] > 0
        /\ CONF_API_KEY \notin DOMAIN entryData[e]
        /\ setupResult[e] = ConfigEntryAuthFailed
        /\ apiCount[e] = 0
        /\ e \notin DOMAIN domainData
        /\ gdOut[e] = "none"
        /\ ~forwarded[e]

\* C4: a finished poll has called the API, and its result is determined by
\* what the API did during that poll alone, whatever the polls before it
\* ended with; with both calls returning and a dict it succeeds.
C4_PollIsStateless ==
    \A e \in Entries :
        PollDone(e)
        => /\ gdOut[e] # "none"
           /\ pollResult[e] = Outcome(gdOut[e], gvOut[e], apiData[e])

C4_Witness ==
    \E e \in Entries :
        /\ nPolls[e] >= 2
        /\ prevPollResult[e] = UpdateFailed
        /\ PollDone(e)
        /\ gdOut[e] = "ok" /\ gvOut[e] = "ok" /\ apiData[e] = "dict"
        /\ pollResult[e] = "ok"

\* C5: async_unload_entry pops hass.data[DOMAIN][entry_id] iff the platform
\* unload succeeded and returns that result; on failure hass.data[DOMAIN] is
\* unchanged, and other entries' data is untouched either way.
C5_UnloadPopsIffOk ==
    [][\A e \in Entries :
        UnloadStep(e)
        => LET unload_ok == ~forwarded[e]
           IN  /\ e \in DOMAIN domainData
               /\ (e \notin DOMAIN domainData') <=> unload_ok
               /\ unloadResult'[e] = (IF unload_ok THEN "True" ELSE "False")
               /\ ~unload_ok => domainData' = domainData
               /\ hasDomain' = hasDomain
               /\ \A o \in Entries \ {e} :
                    /\ (o \in DOMAIN domainData') <=> (o \in DOMAIN domainData)
                    /\ o \in DOMAIN domainData
                       => domainData'[o] = domainData[o]]_vars

C5_Witness ==
    \E e \in Entries, o \in Entries :
        /\ o # e
        /\ unloadResult[e] = "True"
        /\ e \notin DOMAIN domainData
        /\ unloadResult[o] = "False"
        /\ o \in DOMAIN domainData

\* C6: a setup removes CONF_STATISTICS_ONLY from entry.data and keeps every
\* other key and value, whatever the setup then ends with; an entry without
\* the key is not updated, and nothing else in a setup touches entry.data.
C6_StatisticsOnlyRemoved ==
    [][\A e \in Entries :
        /\ SetupStep(e)
           => /\ CONF_STATISTICS_ONLY \notin DOMAIN entryData'[e]
              /\ DOMAIN entryData'[e] =
                    DOMAIN entryData[e] \ {CONF_STATISTICS_ONLY}
              /\ \A k \in DOMAIN entryData'[e] :
                    entryData'[e][k] = entryData[e][k]
              /\ entryUpdated'[e] <=>
                    (CONF_STATISTICS_ONLY \in DOMAIN entryData[e])
        /\ ~SetupStep(e) => entryData'[e] = entryData[e]]_vars

C6_Witness ==
    \E e \in Entries :
        /\ entryUpdated[e]
        /\ CONF_STATISTICS_ONLY \notin DOMAIN entryData[e]
        /\ CONF_API_KEY \notin DOMAIN entryData[e]
        /\ CONF_HOST \in DOMAIN entryData[e]
        /\ setupResult[e] = ConfigEntryAuthFailed

\* C7 as stated: between calls, hass.data[DOMAIN] holds an entry's data only
\* if its last setup returned True and it was not since unloaded; a setup
\* whose first refresh failed leaves none.
C7_DataOnlyAfterSuccessfulSetup ==
    \A e \in Entries :
        (setupPc[e] = "idle" /\ entryState[e] # "unload_in_progress")
        => /\ e \in DOMAIN domainData
              => (setupResult[e] = "True" /\ unloadResult[e] # "True")
           /\ setupResult[e] = ConfigEntryNotReady
              => e \notin DOMAIN domainData

\* C7 amended: an entry's data enters hass.data[DOMAIN] only in a setup that
\* passed the API-key check, it is gone after a successful unload, and a
\* setup whose first refresh failed leaves it there.
C7_DataOnlyAfterKeyCheck ==
    /\ [][\A e \in Entries :
            (e \notin DOMAIN domainData /\ e \in DOMAIN domainData')
            => (SetupStep(e) /\ CONF_API_KEY \in DOMAIN entryData'[e])]_vars
    /\ [](\A e \in Entries :
            /\ unloadResult[e] = "True" => e \notin DOMAIN domainData
            /\ setupResult[e] \in {ConfigEntryNotReady, "error"}
               => e \in DOMAIN domainData)

C7_Witness ==
    \E e \in Entries, o \in Entries :
        /\ setupPc[e] = "idle"
        /\ setupResult[e] = ConfigEntryNotReady
        /\ e \in DOMAIN domainData
        /\ unloadResult[o] = "True"
        /\ o \notin DOMAIN domainData

\* C8: get_versions() is called only after get_data() returned, the dict test
\* is evaluated only after both returned, and a poll in which get_versions()
\* raised HoleError ends with UpdateFailed whatever api.data is.
C8_ErrorBeforeAuthCheck ==
    \A e \in Entries :
        /\ gvOut[e] # "none" => gdOut[e] = "ok"
        /\ dictChecked[e] => (gdOut[e] = "ok" /\ gvOut[e] = "ok")
        /\ (PollDone(e) /\ gvOut[e] = HoleError)
           => (pollResult[e] = UpdateFailed /\ ~dictChecked[e])

C8_Witness ==
    \E e \in Entries :
        /\ PollDone(e)
        /\ gvOut[e] = HoleError
        /\ apiData[e] = "nondict"
        /\ pollResult[e] = UpdateFailed

\* C9: platforms are forwarded only after the first refresh succeeded; setup
\* returns True only with the API key present, the first refresh successful
\* and the platforms forwarded; after a failed first refresh nothing is
\* forwarded and setup has not returned True.
C9_ForwardAfterFirstRefresh ==
    /\ [][\A e \in Entries :
            /\ (~forwarded[e] /\ forwarded'[e])
               => /\ setupPc[e] = "forward"
                  /\ pollPc[e] = "idle"
                  /\ pollResult[e] = "ok"
            /\ (setupResult[e] # "True" /\ setupResult'[e] = "True")
               => /\ CONF_API_KEY \in DOMAIN entryData[e]
                  /\ pollPc[e] = "idle"
                  /\ pollResult[e] = "ok"
                  /\ forwarded'[e]]_vars
    /\ [](\A e \in Entries :
            setupResult[e] \in {ConfigEntryNotReady, ConfigEntryAuthFailed}
            => ~forwarded[e])

C9_Witness ==
    \E e \in Entries, o \in Entries :
        /\ setupResult[e] = "True"
        /\ forwarded[e]
        /\ setupResult[o] = ConfigEntryNotReady
        /\ ~forwarded[o]

====
